---- MODULE Spec2Model ----
(***************************************************************************)
(* The upload/analysis workflow of static/script.js: file selection by     *)
(* picker or drag-and-drop, client-side admission checks, the asynchronous *)
(* POST to the analysis endpoint and the rendering of its outcome.         *)
(*                                                                         *)
(* Strings are modelled as sequences of tokens (Text): concatenation is    *)
(* \o, String.prototype.includes is Includes.  A template literal becomes  *)
(* the sequence of its literal pieces and interpolated values.             *)
(***************************************************************************)
EXTENDS Integers, Sequences, FiniteSets, TLC

VARIABLES
    dom,        \* the page elements script.js reads and writes
    requests,   \* invocations of handleAnalysisRequest suspended at an await
    posts,      \* number of fetch(API_ENDPOINT, {method: 'POST'}) calls made
    event       \* the handler step taken last and its input (observation)

vars == <<dom, requests, posts, event>>

----------------------------------------------------------------------------
\* Bounds of the model

\* Submissions explored in one behaviour.
MaxPosts == 2

----------------------------------------------------------------------------
\* Configuration (script.js lines 21-24)

API_ENDPOINT == "/analyze"

MAX_FILE_SIZE_MB == 50

ALLOWED_FILE_TYPES == {"video/mp4", "video/quicktime", "video/x-msvideo", "video/avi"}

\* MAX_FILE_SIZE_MB * 1024 * 1024, the right-hand side of both size checks.
MaxFileSizeBytes == MAX_FILE_SIZE_MB * 1024 * 1024

----------------------------------------------------------------------------
\* Text

Includes(s, p) ==
    \E i \in 0..(Len(s) - Len(p)) : SubSeq(s, i + 1, i + Len(p)) = p

\* String.prototype.toLowerCase on the tokens that reach it (line 317).
LowerToken(t) ==
    CASE t = "Failed to fetch" -> "failed to fetch"
      [] t = "NetworkError when attempting to fetch resource." ->
             "networkerror when attempting to fetch resource."
      [] t = "Load failed" -> "load failed"
      [] t = "Server error: " -> "server error: "
      [] t = "Server returned status " -> "server returned status "
      [] OTHER -> t

ToLowerCase(s) == [i \in 1..Len(s) |-> LowerToken(s[i])]

\* The decimal digits of an HTTP status code, one token each.
StatusDigits(n) ==
    <<ToString(n \div 100), ToString((n \div 10) % 10), ToString(n % 10)>>

RECURSIVE FloorLog1024(_)
\* Math.floor(Math.log(bytes) / Math.log(1024)) for an integer bytes >= 1.
FloorLog1024(bytes) ==
    IF bytes < 1024 THEN 0 ELSE 1 + FloorLog1024(bytes \div 1024)

RECURSIVE Pow1024(_)
Pow1024(i) == IF i = 0 THEN 1 ELSE 1024 * Pow1024(i - 1)

SizeUnits == <<"Bytes", "KB", "MB", "GB", "TB">>

\* parseFloat(x.toFixed(2)) printed, for x given in hundredths: trailing
\* zeros of the fraction are dropped.
HundredthsText(h) ==
    IF h % 100 = 0 THEN <<ToString(h \div 100)>>
    ELSE IF h % 10 = 0 THEN <<ToString(h \div 100), ".", ToString((h % 100) \div 10)>>
    ELSE <<ToString(h \div 100), ".", ToString((h % 100) \div 10), ToString(h % 10)>>

\* toFixed(2) rounds the exact quotient half up; the quotient by a power of
\* 1024 is exact in a double, so integer arithmetic gives the same digits.
\* (Sizes of the model stay below 1024^3, which keeps r * 100 in range.)
formatFileSize(bytes) ==
    IF bytes = 0 THEN <<"0 Bytes">>
    ELSE IF bytes < 0 THEN <<"Invalid size">>
    ELSE LET i == FloorLog1024(bytes)
             sizeIndex == IF i < Len(SizeUnits) - 1 THEN i ELSE Len(SizeUnits) - 1
             d == Pow1024(sizeIndex)
             h == (bytes \div d) * 100 + ((bytes % d) * 100 + d \div 2) \div d
         IN  HundredthsText(h) \o <<" ", SizeUnits[sizeIndex + 1]>>

----------------------------------------------------------------------------
\* Inputs

FileNames == {"a.mp4", "b.mov"}

FileTypes == {"video/mp4", "image/png"}

FileSizes == {1536, 52428800, 52428801}

Files == [name : FileNames, type : FileTypes, size : FileSizes]

\* A FileList, of which the code only ever reads files.length and files[0].
FileLists == {<<>>} \cup {<<f>> : f \in Files}

----------------------------------------------------------------------------
\* The page

PlaceholderLabel == <<"Choose Video File or Drag Here">>

PlaceholderInfo == <<"MP4, MOV, AVI up to ", ToString(MAX_FILE_SIZE_MB), "MB">>

IdleButtonHTML == "<i class=\"fas fa-search\"></i> Analyze Video"

BusyButtonHTML == "<i class=\"fas fa-spinner fa-spin\"></i> Analyzing..."

BusyMessage == <<"Uploading and analyzing video. This may take a moment...">>

\* The elements as the markup delivers them, before the script's set-up runs:
\* nothing selected, the trigger enabled, the result spans empty.
PageMarkup ==
    [ videoInput        |-> <<>>,
      analyzeButton     |-> [disabled |-> FALSE, innerHTML |-> IdleButtonHTML],
      statusArea        |-> [className |-> "status-area", display |-> "none"],
      statusMessage     |-> <<>>,
      resultsArea       |-> "none",
      fileNameSpan      |-> <<>>,
      verdictSpan       |-> [textContent |-> <<>>, className |-> "verdict-badge"],
      totalFramesSpan   |-> <<>>,
      realCountSpan     |-> <<>>,
      deepfakeCountSpan |-> <<>>,
      confidenceMeter   |-> [width |-> 0, className |-> "confidence-meter-bar"],
      confidenceValue   |-> 0,
      fileLabelText     |-> <<>>,
      fileInfoText      |-> <<>> ]

resetFileInfoDisplay(d) ==
    [d EXCEPT !.fileLabelText = PlaceholderLabel,
              !.fileInfoText  = PlaceholderInfo,
              !.videoInput    = <<>>]

\* updateFileInfoDisplay adding the name to the label instead of replacing it.
updateFileInfoDisplayAppend(d, file) ==
    [d EXCEPT !.fileLabelText = d.fileLabelText \o <<file.name>>,
              !.fileInfoText  = formatFileSize(file.size)
                                  \o <<" * ", IF file.type = "" THEN "N/A" ELSE file.type>>]

updateFileInfoDisplay(d, file) ==
    [d EXCEPT !.fileLabelText = <<file.name>>,
              !.fileInfoText  = formatFileSize(file.size)
                                  \o <<" * ", IF file.type = "" THEN "N/A" ELSE file.type>>]

\* showStatus leaving the result panel as it is.
showStatusKeepResults(d, message, isError) ==
    [d EXCEPT !.statusMessage = message,
              !.statusArea    = [className |-> IF isError THEN "status-area error"
                                                         ELSE "status-area info",
                                 display   |-> "block"]]

showStatus(d, message, isError) ==
    [d EXCEPT !.statusMessage = message,
              !.statusArea    = [className |-> IF isError THEN "status-area error"
                                                         ELSE "status-area info",
                                 display   |-> "block"],
              !.resultsArea   = "none"]

hideStatus(d) ==
    [d EXCEPT !.statusArea.display = "none",
              !.statusMessage      = <<>>]

hideResults(d) ==
    [d EXCEPT !.resultsArea     = "none",
              !.confidenceMeter = [width |-> 0, className |-> "confidence-meter-bar"],
              !.confidenceValue = 0]

----------------------------------------------------------------------------
\* Selection: drag-and-drop and the file picker

\* DropRejection without the media-type check.
DropRejectionNoType(file) ==
    IF file.size > MaxFileSizeBytes
    THEN <<"File \"", file.name, "\" is too large (>",
           ToString(MAX_FILE_SIZE_MB), "MB", ").">>
    ELSE <<>>

\* DropRejection with the size compared by >=.
DropRejectionGe(file) ==
    IF file.type \notin ALLOWED_FILE_TYPES
    THEN <<"Unsupported file type: ", file.type, ". Please use MP4, MOV, or AVI.">>
    ELSE IF file.size >= MaxFileSizeBytes
    THEN <<"File \"", file.name, "\" is too large (>",
           ToString(MAX_FILE_SIZE_MB), "MB", ").">>
    ELSE <<>>

\* The checks of handleDrop on files[0]: the status message of the first check
\* that fails, <<>> when both pass.
DropRejection(file) ==
    IF file.type \notin ALLOWED_FILE_TYPES
    THEN <<"Unsupported file type: ", file.type, ". Please use MP4, MOV, or AVI.">>
    ELSE IF file.size > MaxFileSizeBytes
    THEN <<"File \"", file.name, "\" is too large (>",
           ToString(MAX_FILE_SIZE_MB), "MB", ").">>
    ELSE <<>>

\* handleDrop assigning the dropped files before it validates them.
handleDropAssignFirst(d, files) ==
    IF Len(files) > 0
    THEN LET file == files[1]
             d1 == updateFileInfoDisplay([d EXCEPT !.videoInput = files], file)
         IN  IF DropRejection(file) # <<>>
             THEN showStatus(d1, DropRejection(file), TRUE)
             ELSE hideStatus(hideResults(d1))
    ELSE d

handleDrop(d, files) ==
    IF Len(files) > 0
    THEN LET file == files[1]
         IN  IF DropRejection(file) # <<>>
             THEN showStatus(d, DropRejection(file), TRUE)
             ELSE hideStatus(hideResults(
                      updateFileInfoDisplay([d EXCEPT !.videoInput = files], file)))
    ELSE d

\* handleFileSelect without its call of hideStatus.
handleFileSelectKeepStatus(d) ==
    hideResults(
        IF Len(d.videoInput) > 0
        THEN updateFileInfoDisplay(d, d.videoInput[1])
        ELSE resetFileInfoDisplay(d))

\* d is the page with videoInput.files already replaced by the browser.
handleFileSelect(d) ==
    hideStatus(hideResults(
        IF Len(d.videoInput) > 0
        THEN updateFileInfoDisplay(d, d.videoInput[1])
        ELSE resetFileInfoDisplay(d)))

----------------------------------------------------------------------------
\* What the analysis endpoint may answer

Statuses == {200, 400, 500}

\* Response.ok
Ok(status) == status >= 200 /\ status <= 299

StatusText(status) ==
    CASE status = 200 -> "OK"
      [] status = 400 -> "Bad Request"
      [] status = 500 -> "Internal Server Error"
      [] OTHER -> ""

\* A text field of a body: <<>> stands for a field that is absent or "",
\* which the code (it only tests the field with ||) does not tell apart.
ErrorTexts == {<<>>, <<"quota exceeded">>, <<"Server error: ", "5", "0", "3">>}

DetailTexts == {<<>>, <<"OOM">>}

MessageTexts == {<<>>, <<"try later">>}

NoVerdict == [type |-> "undefined", str |-> ""]

NoNumber == [type |-> "undefined", n |-> 0]

Num(n) == [type |-> "number", n |-> n]

\* results objects; confidence is given in tenths (914 is 91.4)
SampleResults ==
    { [error_message |-> <<>>, file_name |-> <<"a.mp4">>,
       verdict |-> [type |-> "string", str |-> "REAL"],
       frames_analyzed |-> Num(120), real_frames |-> Num(110), fake_frames |-> Num(10),
       confidence |-> Num(914)],
      [error_message |-> <<>>, file_name |-> <<>>,
       verdict |-> NoVerdict,
       frames_analyzed |-> NoNumber, real_frames |-> Num(0), fake_frames |-> NoNumber,
       confidence |-> NoNumber],
      [error_message |-> <<>>, file_name |-> <<"a.mp4">>,
       verdict |-> [type |-> "string", str |-> "fake"],
       frames_analyzed |-> Num(3), real_frames |-> Num(0), fake_frames |-> Num(3),
       confidence |-> Num(1500)],
      [error_message |-> <<>>, file_name |-> <<"a.mp4">>,
       verdict |-> [type |-> "number", str |-> "7"],
       frames_analyzed |-> Num(3), real_frames |-> Num(3), fake_frames |-> Num(0),
       confidence |-> Num(-50)],
      [error_message |-> <<>>, file_name |-> <<"a.mp4">>,
       verdict |-> [type |-> "string", str |-> "maybe"],
       frames_analyzed |-> Num(0), real_frames |-> NoNumber, fake_frames |-> Num(0),
       confidence |-> Num(-50)],
      [error_message |-> <<"no face detected">>, file_name |-> <<"a.mp4">>,
       verdict |-> NoVerdict,
       frames_analyzed |-> Num(0), real_frames |-> Num(0), fake_frames |-> Num(0),
       confidence |-> NoNumber] }

\* The value response.json() resolves to: null, or an object whose results
\* field is <<>> (absent) or <<r>>.  Bodies that report a failure carry any
\* combination of the three message fields; bodies that carry results carry
\* any value of the success flag.
FailureBodies ==
    [kind : {"object"}, success : {"absent", "false"},
     error : ErrorTexts, detail : DetailTexts, message : MessageTexts,
     results : {<<>>}]

ResultBodies ==
    [kind : {"object"}, success : {"absent", "true", "false"},
     error : {<<>>}, detail : {<<>>}, message : {<<>>},
     results : {<<>>} \cup {<<r>> : r \in SampleResults}]

ObjectBodies == FailureBodies \cup ResultBodies

NullBody ==
    [kind |-> "null", success |-> "absent", error |-> <<>>, detail |-> <<>>,
     message |-> <<>>, results |-> <<>>]

\* response.json() rejects: the body is no JSON.
UnparseableBody == [NullBody EXCEPT !.kind = "unparseable"]

Bodies == ObjectBodies \cup {NullBody, UnparseableBody}

\* What fetch() rejects with.
FetchErrors ==
    { [name |-> "TypeError", message |-> <<"Failed to fetch">>],
      [name |-> "TypeError", message |-> <<"Load failed">>],
      [name |-> "AbortError", message |-> <<"The user aborted a request.">>] }

NewError(message) == [name |-> "Error", message |-> message]

NoError == [name |-> "", message |-> <<>>]

----------------------------------------------------------------------------
\* Rendering a result

\* a || b on texts
Or(a, b) == IF a # <<>> THEN a ELSE b

\* CountText with || in place of ??: a count of 0 reads as missing.
CountTextFalsy(x) == IF x.type = "number" /\ x.n # 0 THEN <<ToString(x.n)>> ELSE <<"N/A">>

\* x ?? 'N/A' as text content
CountText(x) == IF x.type = "number" THEN <<ToString(x.n)>> ELSE <<"N/A">>

\* Math.round of a value given in tenths: floor(x + 0.5)
MathRound(tenths) == (tenths + 5) \div 10

\* Clamp without the lower bound.
ClampUpperOnly(c) == IF c > 100 THEN 100 ELSE c

Clamp(c) == IF c > 100 THEN 100 ELSE IF c < 0 THEN 0 ELSE c

Confidence(x) == IF x.type = "number" THEN Clamp(MathRound(x.n)) ELSE 0

MeterClass(confidence) ==
    IF confidence >= 70 THEN "confidence-meter-bar high"
    ELSE IF confidence >= 40 THEN "confidence-meter-bar medium"
    ELSE "confidence-meter-bar low"

\* String.prototype.toUpperCase on the verdict strings of the model
ToUpperCase(str) ==
    CASE str = "fake" -> "FAKE"
      [] str = "real" -> "REAL"
      [] str = "maybe" -> "MAYBE"
      [] OTHER -> str

\* data.verdict || 'UNKNOWN'
VerdictOrUnknown(v) == IF v.type = "undefined" \/ v.str = "" THEN "UNKNOWN" ELSE v.str

\* Lines 187-215 and 218: the spans and the meter filled from data.
populate(d, data) ==
    [d EXCEPT !.fileNameSpan      = Or(data.file_name, <<"N/A">>),
              !.verdictSpan       = [textContent |-> <<VerdictOrUnknown(data.verdict)>>,
                                     className   |-> "verdict-badge"],
              !.totalFramesSpan   = CountText(data.frames_analyzed),
              !.realCountSpan     = CountText(data.real_frames),
              !.deepfakeCountSpan = CountText(data.fake_frames),
              !.confidenceMeter   = [width     |-> Confidence(data.confidence),
                                     className |-> MeterClass(Confidence(data.confidence))],
              !.confidenceValue   = Confidence(data.confidence)]

\* showNote with the note styled as an error.
showNoteAsError(d, data) ==
    [showStatus(d, <<"Analysis Note: ">> \o data.error_message, TRUE)
     EXCEPT !.resultsArea = "none"]

\* Lines 180-185: a note inside results is shown as an informational status.
showNote(d, data) ==
    [showStatus(d, <<"Analysis Note: ">> \o data.error_message, FALSE)
     EXCEPT !.resultsArea = "none"]

\* showResults: the page after the call and the error it threw (NoError if none).
showResults(d, responseData) ==
    LET d0 == hideStatus(d)
    IN  IF responseData.kind # "object"
        THEN [dom |-> showStatus(d0, <<"Received invalid response from server.">>, TRUE),
              thrown |-> NoError]
        ELSE IF responseData.success # "true" \/ responseData.results = <<>>
        THEN [dom |-> showStatus(d0,
                         <<"Analysis Error: ">> \o
                         Or(responseData.error, Or(responseData.message,
                            <<"Analysis failed. Results key missing in response.">>)),
                         TRUE),
              thrown |-> NoError]
        ELSE LET data == responseData.results[1]
             IN  IF data.error_message # <<>>
                 THEN [dom |-> showNote(d0, data), thrown |-> NoError]
                 ELSE IF data.verdict.type = "number"
                 \* (7).toUpperCase is not a function: line 219 throws
                 THEN [dom |-> populate(d0, data),
                       thrown |-> [name |-> "TypeError",
                                   message |-> <<"(data.verdict || \"UNKNOWN\").toUpperCase",
                                                 " is not a function">>]]
                 ELSE [dom |-> [populate(d0, data)
                                EXCEPT !.verdictSpan.className =
                                           "verdict-badge verdict-"
                                           \o ToUpperCase(VerdictOrUnknown(data.verdict)),
                                       !.resultsArea = "block"],
                       thrown |-> NoError]

----------------------------------------------------------------------------
\* handleAnalysisRequest

AllowedTypesStr == "MP4, QUICKTIME, X-MSVIDEO, AVI"

\* SubmitRejection without the size check.
SubmitRejectionNoSize(files) ==
    IF Len(files) = 0
    THEN <<"Please select or drop a video file first.">>
    ELSE LET file == files[1]
         IN  IF file.type \notin ALLOWED_FILE_TYPES
             THEN <<"Unsupported file type (", IF file.type = "" THEN "unknown" ELSE file.type,
                    "). Please upload ", AllowedTypesStr, ".">>
             ELSE <<>>

\* The validation of handleAnalysisRequest on videoInput.files: the status
\* message of the first check that fails, <<>> when all pass.
SubmitRejection(files) ==
    IF Len(files) = 0
    THEN <<"Please select or drop a video file first.">>
    ELSE LET file == files[1]
         IN  IF file.type \notin ALLOWED_FILE_TYPES
             THEN <<"Unsupported file type (", IF file.type = "" THEN "unknown" ELSE file.type,
                    "). Please upload ", AllowedTypesStr, ".">>
             ELSE IF file.size > MaxFileSizeBytes
             THEN <<"File size (">> \o formatFileSize(file.size)
                  \o <<") exceeds ", ToString(MAX_FILE_SIZE_MB), "MB", " limit.">>
             ELSE <<>>

\* disableTrigger changing the caption only.
disableTriggerCaptionOnly(d) ==
    [d EXCEPT !.analyzeButton.innerHTML = BusyButtonHTML]

disableTrigger(d) ==
    [d EXCEPT !.analyzeButton = [disabled |-> TRUE, innerHTML |-> BusyButtonHTML]]

\* prepareUI without the in-progress status.
prepareUINoStatus(d) == hideResults(disableTrigger(d))

\* UI preparation, lines 262-266.
prepareUI(d) == showStatus(hideResults(disableTrigger(d)), BusyMessage, FALSE)

\* The request issued a second time.
IssuePostTwice(n) == n + 2

\* fetch(API_ENDPOINT, {method: 'POST', body: formData}): the number of POSTs
\* made so far, after this call.
IssuePost(n) == n + 1

ConnectivityMessage ==
    <<"Could not connect to the analysis server. Please check the server status and your network connection.">>

ServerErrorMessage ==
    <<"A server error occurred during analysis. Please try again later.">>

\* userMessage without the rewriting of recognised errors.
userMessageRaw(error) == <<"Analysis failed: ">> \o error.message

userMessage(error) ==
    IF error.name = "TypeError"
       /\ Includes(ToLowerCase(error.message), <<"failed to fetch">>)
    THEN ConnectivityMessage
    ELSE IF Includes(error.message, <<"Server error: ", "5">>)
    THEN ServerErrorMessage
    ELSE <<"Analysis failed: ">> \o error.message

\* catchBlock that shows no status.
catchBlockHideOnly(d, error) == hideResults(d)

catchBlock(d, error) == hideResults(showStatus(d, userMessage(error), TRUE))

\* finallyBlock restoring the caption only.
finallyBlockCaptionOnly(d) ==
    [d EXCEPT !.analyzeButton.innerHTML = IdleButtonHTML]

finallyBlock(d) ==
    [d EXCEPT !.analyzeButton = [disabled |-> FALSE, innerHTML |-> IdleButtonHTML]]

\* HttpErrorMsg with a fallback that leaves the status out.
HttpErrorMsgNoStatus(status, responseData) ==
    Or(responseData.error, Or(responseData.detail, Or(responseData.message,
       <<"Server error">>)))

\* responseData?.error || responseData?.detail || responseData?.message
\*   || `Server error: ${response.status} ${response.statusText}`
HttpErrorMsg(status, responseData) ==
    Or(responseData.error, Or(responseData.detail, Or(responseData.message,
       <<"Server error: ">> \o StatusDigits(status) \o <<" ", StatusText(status)>>)))

\* responseData.error || responseData.message || "Analysis reported failure."
FlagErrorMsg(responseData) ==
    Or(responseData.error, Or(responseData.message, <<"Analysis reported failure.">>))

\* The try block from the resolution of response.json() on (lines 282-310):
\* the page it leaves and the error it throws (NoError if none).
tryAfterJson(d, status, body) ==
    IF body.kind = "unparseable" /\ ~Ok(status)
    THEN [dom |-> d,
          thrown |-> NewError(<<"Server returned status ">> \o StatusDigits(status)
                              \o <<" ", StatusText(status),
                                   ", but response was not valid JSON.">>)]
    ELSE LET responseData ==
                 IF body.kind = "unparseable"
                 THEN [kind |-> "object", success |-> "false",
                       error |-> <<"Received non-JSON response from server.">>,
                       detail |-> <<>>, message |-> <<>>, results |-> <<>>]
                 ELSE body
         IN  IF ~Ok(status)
             THEN [dom |-> d, thrown |-> NewError(HttpErrorMsg(status, responseData))]
             ELSE IF responseData.kind = "object" /\ responseData.success = "false"
             THEN [dom |-> d, thrown |-> NewError(FlagErrorMsg(responseData))]
             ELSE showResults(d, responseData)

\* The rest of the handler once response.json() has settled.
afterJson(d, status, body) ==
    LET t == tryAfterJson(d, status, body)
    IN  finallyBlock(IF t.thrown # NoError THEN catchBlock(t.dom, t.thrown) ELSE t.dom)

\* The rest of the handler once fetch() has rejected.
afterFetchRejected(d, error) == finallyBlock(catchBlock(d, error))

----------------------------------------------------------------------------
\* Steps

Ev(op, files) ==
    [op |-> op, files |-> files, status |-> 0, body |-> NullBody, error |-> NoError,
     prev |-> ""]

\* What the status banner showed when the trigger was clicked: "error",
\* "info", or "" with no banner up (observation kept with the request).
BannerAtClick(d) ==
    IF d.statusArea.display # "block" THEN ""
    ELSE IF d.statusArea.className = "status-area error" THEN "error" ELSE "info"

\* A disabled button dispatches no click event.
ClickDispatched(d) == ~d.analyzeButton.disabled

HandleDrop ==
    \E files \in FileLists :
        /\ dom' = handleDrop(dom, files)
        /\ event' = Ev("drop", files)
        /\ UNCHANGED <<requests, posts>>

HandleFileSelect ==
    \E files \in FileLists :
        /\ dom' = handleFileSelect([dom EXCEPT !.videoInput = files])
        /\ event' = Ev("change", files)
        /\ UNCHANGED <<requests, posts>>

\* A click whose file fails validation: lines 241-260.
HandleAnalysisRequestInvalid ==
    /\ ClickDispatched(dom)
    /\ SubmitRejection(dom.videoInput) # <<>>
    /\ dom' = showStatus(dom, SubmitRejection(dom.videoInput), TRUE)
    /\ event' = Ev("click", dom.videoInput)
    /\ UNCHANGED <<requests, posts>>

\* A click whose file passes: lines 241-279, up to the await of fetch.
HandleAnalysisRequestSubmit ==
    /\ ClickDispatched(dom)
    /\ SubmitRejection(dom.videoInput) = <<>>
    /\ posts < MaxPosts
    /\ dom' = prepareUI(dom)
    /\ posts' = IssuePost(posts)
    /\ requests' = requests \cup
                     {[id |-> posts + 1, file |-> dom.videoInput[1], pc |-> "fetch",
                       status |-> 0, prev |-> BannerAtClick(dom)]}
    /\ event' = Ev("click", dom.videoInput)

\* fetch() rejects: catch and finally run.
FetchRejects ==
    \E r \in requests, e \in FetchErrors :
        /\ r.pc = "fetch"
        /\ dom' = afterFetchRejected(dom, e)
        /\ requests' = requests \ {r}
        /\ event' = [Ev("fetchRejected", <<r.file>>) EXCEPT !.error = e, !.prev = r.prev]
        /\ UNCHANGED posts

\* fetch() resolves with the response head; the handler awaits response.json().
FetchResolves ==
    \E r \in requests, st \in Statuses :
        /\ r.pc = "fetch"
        /\ requests' = (requests \ {r}) \cup {[r EXCEPT !.pc = "json", !.status = st]}
        /\ event' = [Ev("fetchResolved", <<r.file>>) EXCEPT !.status = st]
        /\ UNCHANGED <<dom, posts>>

\* response.json() settles: the handler runs to its end.
JsonSettles ==
    \E r \in requests, body \in Bodies :
        /\ r.pc = "json"
        /\ dom' = afterJson(dom, r.status, body)
        /\ requests' = requests \ {r}
        /\ event' = [Ev("settled", <<r.file>>)
                     EXCEPT !.status = r.status, !.body = body, !.prev = r.prev]
        /\ UNCHANGED posts

\* Initial set-up, lines 333-335.
Init ==
    /\ dom = hideResults(hideStatus(resetFileInfoDisplay(PageMarkup)))
    /\ requests = {}
    /\ posts = 0
    /\ event = Ev("load", <<>>)

Next ==
    \/ HandleDrop
    \/ HandleFileSelect
    \/ HandleAnalysisRequestInvalid
    \/ HandleAnalysisRequestSubmit
    \/ FetchRejects
    \/ FetchResolves
    \/ JsonSettles

Spec == Init /\ [][Next]_vars

----------------------------------------------------------------------------
\* Properties

\* The admission policy: a file is present, its media type is in the
\* allow-list and its size does not exceed 50 MiB.
Admissible(files) ==
    /\ Len(files) > 0
    /\ files[1].type \in {"video/mp4", "video/quicktime", "video/x-msvideo", "video/avi"}
    /\ files[1].size <= 52428800

ErrorShown(d) ==
    /\ d.statusArea.display = "block"
    /\ d.statusArea.className = "status-area error"
    /\ d.statusMessage # <<>>

DisplayCleared(d) == d.statusArea.display = "none" /\ d.resultsArea = "none"

BusyShown(d) ==
    /\ d.statusArea.display = "block"
    /\ d.statusArea.className = "status-area info"
    /\ d.statusMessage = BusyMessage
    /\ d.resultsArea = "none"

\* C1: at most one analysis request is in flight at any time.
AtMostOneInFlight == Cardinality(requests) <= 1

\* A second submission is in flight and a selection event has interleaved.
AtMostOneInFlightWitness ==
    /\ requests # {}
    /\ posts = 2
    /\ event.op \in {"drop", "change"}

\* C2: the trigger is disabled exactly while a request is in flight; with no
\* request in flight it is enabled, whatever path the last submission took.
TriggerDisabledIffInFlight == dom.analyzeButton.disabled <=> requests # {}

\* A submission has ended through an exception thrown while rendering.
TriggerDisabledIffInFlightWitness ==
    /\ event.op = "settled"
    /\ event.body.results # <<>>
    /\ event.body.success = "true"
    /\ Ok(event.status)
    /\ event.body.results[1].verdict.type = "number"
    /\ requests = {}
    /\ ~dom.analyzeButton.disabled

\* C3: a click with no file, a media type outside the allow-list or a size
\* over the limit shows an error status, issues no POST and leaves the trigger
\* enabled.
NoPostWithoutAdmissibleFile ==
    [][ (event'.op = "click" /\ ~Admissible(dom.videoInput))
        => /\ posts' = posts
           /\ requests' = requests
           /\ ErrorShown(dom')
           /\ ~dom'.analyzeButton.disabled ]_vars

\* A click on an oversized file of an allowed type was turned down.
NoPostWithoutAdmissibleFileWitness ==
    /\ event.op = "click"
    /\ Len(event.files) > 0
    /\ event.files[1].type = "video/mp4"
    /\ event.files[1].size = 52428801
    /\ posts = 0
    /\ ErrorShown(dom)

\* C4: a click on an admissible file issues exactly one POST, and no other
\* step issues any: a failed call is not retried, and the end of a call
\* leaves one handler fewer waiting.
ExactlyOnePostPerSubmit ==
    [][ /\ posts' = posts + (IF event'.op = "click" /\ Admissible(dom.videoInput)
                             THEN 1 ELSE 0)
        /\ (event'.op \in {"fetchRejected", "settled"}
            => Cardinality(requests') = Cardinality(requests) - 1) ]_vars

\* The second call failed in transport and nothing is in flight.
ExactlyOnePostPerSubmitWitness ==
    /\ event.op = "fetchRejected"
    /\ posts = 2
    /\ requests = {}

\* The first file of the list offered to the step just taken fails the
\* admission policy.
OfferedInadmissible(e) == Len(e.files) > 0 /\ ~Admissible(e.files)

\* C5 as stated: on the picker path and on the drop path alike, a file that
\* fails the type or size check is turned down with an error status and does
\* not become the selected file.
SelectionRejectsOnEveryPath ==
    [][ (event'.op \in {"drop", "change"} /\ OfferedInadmissible(event'))
        => /\ ErrorShown(dom')
           /\ dom'.videoInput = dom.videoInput ]_vars

\* C5 as amended: a drop of a file that fails the type or size check shows an
\* error status and leaves the selected file alone; a picker change checks
\* nothing and makes the chosen file the selected file with the display
\* cleared; and no POST is issued for a selected file that fails the checks.
DropRejectsPickerDefers ==
    [][ /\ (event'.op = "drop" /\ OfferedInadmissible(event')
            => ErrorShown(dom') /\ dom'.videoInput = dom.videoInput)
        /\ (event'.op = "change"
            => dom'.videoInput = event'.files /\ DisplayCleared(dom'))
        /\ (posts' # posts => Admissible(dom.videoInput)) ]_vars

\* The picker has made a file of a disallowed type the selected file.
DropRejectsPickerDefersWitness ==
    /\ event.op = "change"
    /\ OfferedInadmissible(event)
    /\ dom.videoInput = event.files
    /\ dom.fileLabelText = <<event.files[1].name>>
    /\ DisplayCleared(dom)

\* The page with the status banner and the result panel's visibility masked.
BesidesStatus(d) ==
    [d EXCEPT !.statusArea = [className |-> "", display |-> ""], !.statusMessage = <<>>]

BesidesStatusAndPanel(d) == [BesidesStatus(d) EXCEPT !.resultsArea = ""]

\* C6 as stated: a rejected drop changes the status banner and nothing else.
RejectedDropChangesStatusOnly ==
    [][ (event'.op = "drop" /\ OfferedInadmissible(event'))
        => /\ BesidesStatus(dom') = BesidesStatus(dom)
           /\ ErrorShown(dom') ]_vars

\* C6 as amended: a rejected drop leaves the selected file, the label and
\* every other element as they were, except that the status banner shows an
\* error and the result panel is hidden.
RejectedDropFrame ==
    [][ (event'.op = "drop" /\ OfferedInadmissible(event'))
        => /\ BesidesStatusAndPanel(dom') = BesidesStatusAndPanel(dom)
           /\ ErrorShown(dom')
           /\ dom'.resultsArea = "none"
           /\ UNCHANGED <<requests, posts>> ]_vars

\* A drop was rejected while another file is selected and a rendered result
\* (its confidence still in place) has been taken off display by a status.
RejectedDropFrameWitness ==
    /\ event.op = "drop"
    /\ OfferedInadmissible(event)
    /\ Len(dom.videoInput) > 0
    /\ dom.videoInput # event.files
    /\ dom.confidenceValue > 0
    /\ dom.resultsArea = "none"
    /\ ErrorShown(dom)

AllowedType(files) == Len(files) > 0 /\ files[1].type \in ALLOWED_FILE_TYPES

NamesLimit(d) == ErrorShown(d) /\ Includes(d.statusMessage, <<"50", "MB">>)

\* C7: with an allowed type, a file of exactly 52,428,800 bytes is accepted
\* and a file of 52,428,801 bytes or more is rejected with a message naming
\* 50MB, at drop time and at submit time.
SizeLimitStrict ==
    [][ /\ (event'.op = "drop" /\ AllowedType(event'.files)
            => IF event'.files[1].size <= 52428800
               THEN dom'.videoInput = event'.files /\ DisplayCleared(dom')
               ELSE NamesLimit(dom') /\ dom'.videoInput = dom.videoInput)
        /\ (event'.op = "click" /\ AllowedType(dom.videoInput)
            => IF dom.videoInput[1].size <= 52428800
               THEN posts' = posts + 1 /\ BusyShown(dom')
               ELSE NamesLimit(dom') /\ posts' = posts) ]_vars

\* A file of exactly 50 MiB was dropped, accepted and submitted.
SizeLimitStrictWitness ==
    /\ event.op = "click"
    /\ Len(dom.videoInput) > 0
    /\ dom.videoInput[1].size = 52428800
    /\ dom.fileInfoText = <<"50", " ", "MB", " * ", "video/mp4">>
    /\ requests # {}

\* C8: after a picker change or an accepted drop neither the status banner
\* nor the result panel is visible, in whatever state it occurs; a submission
\* that passes validation hides the result panel.
SelectionClearsDisplay ==
    [][ /\ (event'.op = "change" => DisplayCleared(dom'))
        /\ (event'.op = "drop" /\ Admissible(event'.files) => DisplayCleared(dom'))
        /\ (event'.op = "click" /\ Admissible(dom.videoInput)
            => dom'.resultsArea = "none") ]_vars

\* A picker change has cleared the display while a request is in flight.
SelectionClearsDisplayWitness ==
    /\ event.op = "change"
    /\ requests # {}
    /\ DisplayCleared(dom)

\* C9 as stated: while a request is in flight the in-progress banner is shown
\* and the result panel hidden.
BusyUntilSettled == requests # {} => BusyShown(dom)

\* C9 as amended: a submission shows the in-progress banner as it starts;
\* while a request is in flight the result panel is hidden and the trigger
\* disabled, and only a picker change or a drop alters the page; when the
\* request settles the trigger is enabled and exactly one of status banner and
\* result panel is shown.
BusyOrder ==
    [][ /\ (requests = {} /\ requests' # {} => BusyShown(dom'))
        /\ (requests' # {} => dom'.resultsArea = "none" /\ dom'.analyzeButton.disabled)
        /\ (requests # {} /\ requests' # {} /\ event'.op \notin {"change", "drop"}
            => dom' = dom)
        /\ (requests # {} /\ requests' = {}
            => /\ ~dom'.analyzeButton.disabled
               /\ (dom'.statusArea.display = "block") # (dom'.resultsArea = "block")) ]_vars

\* A request is in flight and the in-progress banner is gone.
BusyOrderWitness ==
    /\ requests # {}
    /\ event.op \in {"change", "drop"}
    /\ ~BusyShown(dom)

\* The first non-empty of a body's error, detail and message fields.
FirstField(b) == IF b.error # <<>> THEN b.error ELSE IF b.detail # <<>> THEN b.detail ELSE b.message

\* C10: a failure status with a parsed body that carries an error, detail or
\* message field shows an error status containing the first of them present.
HttpFailureShowsBodyField ==
    [][ (/\ event'.op = "settled"
         /\ ~Ok(event'.status)
         /\ event'.body.kind = "object"
         /\ FirstField(event'.body) # <<>>)
        => ErrorShown(dom') /\ Includes(dom'.statusMessage, FirstField(event'.body)) ]_vars

\* The step just taken ended a submission whose response had a failure
\* status and a body that is no JSON or carries none of the message fields.
FailureWithoutMessage(e) ==
    /\ e.op = "settled"
    /\ ~Ok(e.status)
    /\ e.body.error = <<>> /\ e.body.detail = <<>> /\ e.body.message = <<>>

\* C11 as stated: a failure status whose body is unparseable or carries none
\* of error, detail, message shows an error status naming the status code.
GenericErrorNamesStatus ==
    [][ FailureWithoutMessage(event')
        => ErrorShown(dom') /\ Includes(dom'.statusMessage, StatusDigits(event'.status)) ]_vars

\* C11 as amended: such a response shows an error status that names the status
\* code, except that a parsed body with none of the fields under a 5xx status
\* shows the fixed server-error text, which does not name the code.
GenericErrorNamesStatusUnless5xx ==
    [][ FailureWithoutMessage(event')
        => /\ ErrorShown(dom')
           /\ IF event'.body.kind # "unparseable" /\ event'.status \div 100 = 5
              THEN dom'.statusMessage =
                     <<"A server error occurred during analysis. Please try again later.">>
              ELSE Includes(dom'.statusMessage, StatusDigits(event'.status)) ]_vars

\* HTTP 500 with a parsed body that has no message field has been rendered.
GenericErrorNamesStatusUnless5xxWitness ==
    /\ FailureWithoutMessage(event)
    /\ event.status = 500
    /\ event.body.kind = "object"
    /\ ErrorShown(dom)
    /\ ~Includes(dom.statusMessage, <<"5", "0", "0">>)

\* C12: an HTTP-success body {success:false, detail:D} with no error field
\* shows an error status containing D.
SuccessFalseShowsDetail ==
    [][ (/\ event'.op = "settled"
         /\ Ok(event'.status)
         /\ event'.body.kind = "object"
         /\ event'.body.success = "false"
         /\ event'.body.error = <<>>
         /\ event'.body.detail # <<>>)
        => ErrorShown(dom') /\ Includes(dom'.statusMessage, event'.body.detail) ]_vars

\* The results object of a body is present, carries no error_message and has
\* a verdict that is a string or absent.
PlainResults(b) ==
    /\ b.kind = "object"
    /\ b.results # <<>>
    /\ b.results[1].error_message = <<>>
    /\ b.results[1].verdict.type # "number"

\* C13: on an HTTP-success response every body that does not carry
\* success=false, the flag being absent included, and whose results object has
\* no error_message is rendered in the result panel.
OnlyExplicitFalseFails ==
    [][ (/\ event'.op = "settled"
         /\ Ok(event'.status)
         /\ PlainResults(event'.body)
         /\ event'.body.success # "false")
        => dom'.resultsArea = "block" /\ dom'.statusArea.display = "none" ]_vars

\* C14: an HTTP-success body with success=true whose results carry
\* error_message shows the note in a status banner of info style, keeps the
\* result panel hidden and ends with the trigger enabled.
NoteIsInformational ==
    [][ (/\ event'.op = "settled"
         /\ Ok(event'.status)
         /\ event'.body.kind = "object"
         /\ event'.body.success = "true"
         /\ event'.body.results # <<>>
         /\ event'.body.results[1].error_message # <<>>)
        => /\ dom'.statusArea = [className |-> "status-area info", display |-> "block"]
           /\ Includes(dom'.statusMessage, event'.body.results[1].error_message)
           /\ dom'.resultsArea = "none"
           /\ ~dom'.analyzeButton.disabled ]_vars

\* The note "no face detected" is on display after a submission.
NoteIsInformationalWitness ==
    /\ event.op = "settled"
    /\ event.body.success = "true"
    /\ dom.statusMessage = <<"Analysis Note: ", "no face detected">>
    /\ dom.statusArea.className = "status-area info"
    /\ dom.resultsArea = "none"
    /\ requests = {}

\* The step just taken ended a submission in one of the failure kinds:
\* transport failure, failure status, unparseable body, success=false.
EndedInFailure(e) ==
    \/ e.op = "fetchRejected"
    \/ /\ e.op = "settled"
       /\ \/ ~Ok(e.status)
          \/ e.body.kind = "unparseable"
          \/ e.body.kind = "object" /\ e.body.success = "false"

\* C15: every failure kind ends the submission with an error status shown,
\* the result panel hidden and the trigger enabled, the handler gone.
FailuresRecovered ==
    [][ EndedInFailure(event')
        => /\ ErrorShown(dom')
           /\ dom'.resultsArea = "none"
           /\ ~dom'.analyzeButton.disabled
           /\ Cardinality(requests') = Cardinality(requests) - 1 ]_vars

\* An HTTP-success response whose body is no JSON has been recovered.
FailuresRecoveredWitness ==
    /\ event.op = "settled"
    /\ Ok(event.status)
    /\ event.body.kind = "unparseable"
    /\ ErrorShown(dom)
    /\ requests = {}
    /\ ~dom.analyzeButton.disabled

\* The error the catch block receives in the step that event e records, taken
\* from page d; NoError if none is thrown.
Thrown(e, d) ==
    IF e.op = "fetchRejected" THEN e.error
    ELSE IF e.op = "settled" THEN tryAfterJson(d, e.status, e.body).thrown
    ELSE NoError

FetchSignature(err) ==
    err.name = "TypeError" /\ Includes(ToLowerCase(err.message), <<"failed to fetch">>)

ConnectivityShown(d, err) ==
    /\ ErrorShown(d)
    /\ d.statusMessage = <<"Could not connect to the analysis server. Please check the server status and your network connection.">>
    /\ ~Includes(d.statusMessage, err.message)

\* C16 as stated: a TypeError whose message contains "failed to fetch" shows
\* the connectivity message without the raw text; any other thrown error is
\* shown with its own message text.
OtherErrorsShowOwnText ==
    [][ Thrown(event', dom) # NoError
        => IF FetchSignature(Thrown(event', dom))
           THEN ConnectivityShown(dom', Thrown(event', dom))
           ELSE ErrorShown(dom')
                /\ Includes(dom'.statusMessage, Thrown(event', dom).message) ]_vars

\* C16 as amended: ... any other thrown error is shown with its own message
\* text unless that text contains "Server error: 5", which shows the fixed
\* server-error text.
ErrorsRewritten ==
    [][ Thrown(event', dom) # NoError
        => IF FetchSignature(Thrown(event', dom))
           THEN ConnectivityShown(dom', Thrown(event', dom))
           ELSE IF Includes(Thrown(event', dom).message, <<"Server error: ", "5">>)
           THEN ErrorShown(dom')
                /\ dom'.statusMessage =
                     <<"A server error occurred during analysis. Please try again later.">>
           ELSE ErrorShown(dom')
                /\ Includes(dom'.statusMessage, Thrown(event', dom).message) ]_vars

\* fetch has rejected with "Failed to fetch" and the connectivity message is up.
ErrorsRewrittenWitness ==
    /\ event.op = "fetchRejected"
    /\ event.error = [name |-> "TypeError", message |-> <<"Failed to fetch">>]
    /\ ConnectivityShown(dom, event.error)

\* The confidence to display for a server value given in tenths: rounded and
\* clamped to 0..100, and 0 for a value that is no number.
ExpectedConfidence(x) ==
    IF x.type # "number" THEN 0
    ELSE IF x.n >= 1000 THEN 100
    ELSE IF x.n <= 0 THEN 0
    ELSE (x.n + 5) \div 10

\* C17: the displayed confidence and the meter width are always integers in
\* 0..100, and a rendered result shows the server's confidence rounded and
\* clamped (150 as 100, -5 as 0, a missing one as 0).
ConfidenceClamped ==
    /\ [](dom.confidenceValue \in 0..100 /\ dom.confidenceMeter.width \in 0..100)
    /\ [][ (event'.op = "settled" /\ dom'.resultsArea = "block")
           => /\ dom'.confidenceValue =
                   ExpectedConfidence(event'.body.results[1].confidence)
              /\ dom'.confidenceMeter.width = dom'.confidenceValue ]_vars

\* A result with confidence 150 is displayed as 100.
ConfidenceClampedWitness ==
    /\ event.op = "settled"
    /\ dom.resultsArea = "block"
    /\ event.body.results[1].confidence = Num(1500)
    /\ dom.confidenceValue = 100
    /\ dom.confidenceMeter.width = 100

\* C18: a rendered result's verdict badge has one of the classes verdict-REAL,
\* verdict-FAKE, verdict-UNKNOWN, and verdict-UNKNOWN when the server's verdict
\* is absent or is none of the three.
VerdictClassEnumerated ==
    [][ (event'.op = "settled" /\ dom'.resultsArea = "block")
        => LET v == event'.body.results[1].verdict
           IN  dom'.verdictSpan.className =
                 IF v.type = "string" /\ ToUpperCase(v.str) \in {"REAL", "FAKE", "UNKNOWN"}
                 THEN "verdict-badge verdict-" \o ToUpperCase(v.str)
                 ELSE "verdict-badge verdict-UNKNOWN" ]_vars

CountShown(x, span) ==
    IF x.type = "number" THEN span = <<ToString(x.n)>> ELSE span = <<"N/A">>

\* C19: a rendered result shows a missing frames_analyzed, real_frames or
\* fake_frames as "N/A" and a count, 0 included, as its number; a missing
\* verdict is shown as "UNKNOWN".
MissingIsNotZero ==
    [][ (event'.op = "settled" /\ dom'.resultsArea = "block")
        => LET data == event'.body.results[1]
           IN  /\ CountShown(data.frames_analyzed, dom'.totalFramesSpan)
               /\ CountShown(data.real_frames, dom'.realCountSpan)
               /\ CountShown(data.fake_frames, dom'.deepfakeCountSpan)
               /\ (data.verdict.type = "undefined"
                   => dom'.verdictSpan.textContent = <<"UNKNOWN">>) ]_vars

\* A result with real_frames 0 and the other counts missing is displayed.
MissingIsNotZeroWitness ==
    /\ event.op = "settled"
    /\ dom.resultsArea = "block"
    /\ dom.realCountSpan = <<"0">>
    /\ dom.totalFramesSpan = <<"N/A">>
    /\ dom.deepfakeCountSpan = <<"N/A">>
    /\ dom.verdictSpan.textContent = <<"UNKNOWN">>

\* A body of the expected success shape: success=true and a results object
\* without error_message whose verdict is a string or absent.
WellFormedSuccess(b) == b.kind = "object" /\ b.success = "true" /\ PlainResults(b)

\* C20: with no request in flight the trigger is enabled; a click on an
\* admissible file while a Failure, Informational or rejection banner is up
\* issues a request; and a submission started from such a banner that gets a
\* well-formed success response ends with the result panel shown, the banner
\* hidden and the trigger enabled.
NoResidualLockout ==
    /\ [](requests = {} => ~dom.analyzeButton.disabled)
    /\ [][ /\ (/\ event'.op = "click"
               /\ Admissible(dom.videoInput)
               /\ dom.statusArea.display = "block")
              => posts' = posts + 1 /\ requests' # {} /\ BusyShown(dom')
           /\ (/\ event'.op = "settled"
               /\ event'.prev \in {"error", "info"}
               /\ Ok(event'.status)
               /\ WellFormedSuccess(event'.body))
              => /\ dom'.resultsArea = "block"
                 /\ dom'.statusArea.display = "none"
                 /\ ~dom'.analyzeButton.disabled ]_vars

\* The second submission, started while an error banner was up, has ended
\* with its result on display.
NoResidualLockoutWitness ==
    /\ event.op = "settled"
    /\ event.prev = "error"
    /\ posts = 2
    /\ dom.resultsArea = "block"
    /\ dom.statusArea.display = "none"
    /\ ~dom.analyzeButton.disabled

\* The page after the picker has delivered files to page d.
Picked(d, files) == handleFileSelect([d EXCEPT !.videoInput = files])

\* C21: selecting the same valid file twice in a row, by drop or by picker,
\* is accepted both times and leaves the page after the second selection as
\* after the first: the file stored, its name in the label, status and result
\* cleared.
SelectFileIdempotent ==
    \A files \in FileLists :
        Admissible(files)
        => LET d1 == handleDrop(dom, files)
               p1 == Picked(dom, files)
           IN  /\ DropRejection(files[1]) = <<>>
               /\ d1.videoInput = files /\ p1.videoInput = files
               /\ d1.fileLabelText = <<files[1].name>>
               /\ p1.fileLabelText = <<files[1].name>>
               /\ DisplayCleared(d1) /\ DisplayCleared(p1)
               /\ handleDrop(d1, files) = d1
               /\ Picked(p1, files) = p1
               /\ handleDrop(p1, files) = p1
               /\ Picked(d1, files) = d1

\* A valid file has just been dropped over a shown status or another file,
\* and selecting it again leaves the page as it is.
SelectFileIdempotentWitness ==
    /\ event.op = "drop"
    /\ Admissible(event.files)
    /\ dom.videoInput = event.files
    /\ dom.fileLabelText = <<event.files[1].name>>
    /\ dom.statusArea.className = "status-area error"
    /\ DisplayCleared(dom)
    /\ handleDrop(dom, event.files) = dom
    /\ Picked(dom, event.files) = dom

\* C22: the status banner and the result panel are never both visible.
BannerAndPanelExclusive ==
    ~(dom.statusArea.display = "block" /\ dom.resultsArea = "block")

\* A result is on display after a submission made while an informational
\* banner was up: showing the result has hidden the banner.
BannerAndPanelExclusiveWitness ==
    /\ event.op = "settled"
    /\ event.prev = "info"
    /\ dom.resultsArea = "block"
    /\ dom.statusArea.display = "none"

\* C23: while the outcome of a submission (result panel or status banner) is
\* on display, the selected file is the file that submission uploaded.
OutcomeBelongsToSelection ==
    (/\ event.op \in {"settled", "fetchRejected"}
     /\ (dom.resultsArea = "block" \/ dom.statusArea.display = "block"))
    => dom.videoInput = event.files

====
